---- MODULE Spec2Model ----
(***************************************************************************)
(* Model of the autosubmit_models synchronisation engine.                  *)
(*                                                                         *)
(*  - Spec:      the sync cycle of AutosubmitSyncWorker.execute_task over  *)
(*               a growing Autosubmit source and the TimescaleDB tables    *)
(*               "experiments" and "metric_models_popularity", plus the    *)
(*               materialized view mv_latest_popular_models.               *)
(*  - SchedSpec: BaseWorker.start / stop and WorkerManager driving the     *)
(*               worker loops as asyncio tasks.                            *)
(*  - CleanSpec: _clean_model_name applied to every short model name.      *)
(*  - RaceSpec:  _update_timescaledb of two worker processes, statement    *)
(*               by statement, on the same tables.                         *)
(*  - ProvSpec:  initialize_database and refresh_materialized_views over   *)
(*               the catalog (backing table, object at the view's name).   *)
(*  - CacheSpec: MemoryCache get / set / delete / clear / clean_expired.   *)
(*  - ChainSpec: the cycles of one worker over a faster growing source.    *)
(*  - NameSpec:  the cycles over a source in which a name repeats.         *)
(*  - LockSpec:  MemoryCache called by two threads, lock by lock.          *)
(*  - ReadSpec:  GET /aggregated over the view, through the cache.         *)
(*                                                                         *)
(* Strings are sequences of one-character strings, datetimes are naturals  *)
(* (DayLen ticks per calendar day).                                        *)
(***************************************************************************)
EXTENDS Integers, Sequences, FiniteSets, TLC

VARIABLES
    source,        \* rows of the Autosubmit SQLite join details x experiment
    experiments,   \* committed rows of table "experiments"
    popularity,    \* committed rows of table "metric_models_popularity"
    view,          \* mv_latest_popular_models: [populated, rows]
    current_time,  \* AutosubmitSyncWorker.current_time
    op,            \* name of the operation that produced this state
    last,          \* record of the most recent execute_task run
    workers,       \* WorkerManager.workers : name -> worker instance (0 = unregistered)
    is_running,    \* BaseWorker.is_running per worker instance
    tasks,         \* WorkerManager.tasks : name -> asyncio task of worker.start()
    stopper,       \* the stop_workers coroutine: [pc, pending]
    sched,         \* record of the most recent scheduler step
    clean,         \* a model name and what _clean_model_name makes of it
    race,          \* the open sessions of concurrent _update_timescaledb runs
    prov,          \* the catalog: the backing table and the object at the view's name
    cache,         \* MemoryCache: _cache, _stats, _default_ttl and the clock
    mem,           \* MemoryCache under threads: the data, _lock and each thread
    req            \* the latest request to /aggregated and its response

vars == <<source, experiments, popularity, view, current_time, op, last,
          workers, is_running, tasks, stopper, sched, clean, race, prov, cache, mem, req>>

syncVars == <<source, experiments, popularity, view, current_time, op, last>>
schedVars == <<workers, is_running, tasks, stopper, sched>>
cleanVars == <<clean>>
raceVars == <<race>>
provVars == <<prov>>
cacheVars == <<cache, mem, req>>

----------------------------------------------------------------------------
(* Bounds of the model *)

\* number of times the process is restarted (a restart builds a new worker
\* whose current_time is a later datetime.now())
MaxTime == 2

\* number of valid experiments that may be waiting to be synchronised
MaxBacklog == 2

\* number of worker instances that can be constructed and registered
MaxInst == 3

\* longest model name given to _clean_model_name
MaxLen == 4

\* number of cycles the concurrent worker processes begin
MaxRuns == 2

\* number of calls of refresh_materialized_views and initialize_database
MaxCalls == 4

\* latest reading of the clock of the cache
MaxClock == 2

\* number of get calls counted per key
MaxGets == 1
MaxLimit == 2

(* Program constants *)

\* ticks per calendar day: credated.replace(hour=0, ...) truncates to a day
DayLen == 2

\* batch_size in _update_timescaledb
batch_size == 100

----------------------------------------------------------------------------
(* Strings *)

Slash == "/"
Quote == "'"

\* str.rstrip("/")
RECURSIVE RStripSlash(_)
RStripSlash(s) ==
    IF s = <<>> THEN s
    ELSE IF s[Len(s)] = Slash THEN RStripSlash(SubSeq(s, 1, Len(s) - 1))
    ELSE s

\* s[1:-1]
Slice1M1(s) == IF Len(s) <= 2 THEN <<>> ELSE SubSeq(s, 2, Len(s) - 1)

_clean_model_name_NoQuotes(model_name) == RStripSlash(model_name)

\* AutosubmitSyncWorker._clean_model_name
_clean_model_name(model_name) ==
    IF model_name = <<>> THEN model_name
    ELSE LET stripped == RStripSlash(model_name) IN
         IF stripped # <<>> /\ stripped[1] = Quote /\ stripped[Len(stripped)] = Quote
         THEN Slice1M1(stripped)
         ELSE stripped

\* AutosubmitSyncWorker.invalid_model_values
invalid_model_values == { <<"N", "A">>,
                          <<"B", "l", "a", "b", "l", "a">>,
                          <<"b", "l", "a", "b", "l", "a">> }

\* the characters of the model names given to _clean_model_name
Alphabet == { Slash, Quote, "a" }

\* the model names of at most MaxLen characters
ModelNames == UNION { [ 1..k -> Alphabet ] : k \in 0..MaxLen }

\* clean before any call: the name, the result of cleaning it (once) and of
\* cleaning that result (twice)
NoClean == [ pc |-> "input", model_name |-> << >>, once |-> << >>, twice |-> << >> ]

\* _clean_model_name(model_name)
CleanOnce ==
    /\ clean.pc = "input"
    /\ clean' = [ clean EXCEPT !.pc = "once",
                                !.once = _clean_model_name(clean.model_name) ]
    /\ UNCHANGED <<syncVars, schedVars, raceVars, provVars, cacheVars>>

\* _clean_model_name(_clean_model_name(model_name))
CleanTwice ==
    /\ clean.pc = "once"
    /\ clean' = [ clean EXCEPT !.pc = "twice",
                                !.twice = _clean_model_name(clean.once) ]
    /\ UNCHANGED <<syncVars, schedVars, raceVars, provVars, cacheVars>>

----------------------------------------------------------------------------
(* The source of record *)

\* The experiments the upstream system creates, in the order it creates them
\* (experiment.id is its autoincremented primary key).
SourceUniverse ==
    << [exp_id |-> 1, name |-> "n1", model |-> <<"N", "A">>,      credated |-> 0],
       [exp_id |-> 2, name |-> "n2", model |-> <<"A", "/">>,      credated |-> 0],
       [exp_id |-> 3, name |-> "n3", model |-> <<"'", "A", "'">>, credated |-> 1],
       [exp_id |-> 4, name |-> "n4", model |-> <<"A">>,           credated |-> 2],
       [exp_id |-> 5, name |-> "n5", model |-> <<"A">>,           credated |-> 4],
       [exp_id |-> 6, name |-> "n6", model |-> <<"N", "A", "/">>, credated |-> 0] >>

TruncDay_Identity(t) == t

\* credated.replace(hour=0, minute=0, second=0, microsecond=0)
TruncDay(t) == t - (t % DayLen)

\* all sequences enumerating the set S once each
RECURSIVE Orderings(_)
Orderings(S) ==
    IF S = {} THEN { <<>> }
    ELSE UNION { { <<x>> \o s : s \in Orderings(S \ {x}) } : x \in S }

\* the rows of S by ascending exp_id (rowid order)
RECURSIVE ByExpId(_)
ByExpId(S) ==
    IF S = {} THEN <<>>
    ELSE LET r == CHOOSE x \in S : \A y \in S : x.exp_id <= y.exp_id
         IN <<r>> \o ByExpId(S \ {r})

RECURSIVE Concat(_)
Concat(ss) == IF ss = <<>> THEN <<>> ELSE Head(ss) \o Concat(Tail(ss))

\* The extraction query has no ORDER BY: the database chooses the order of
\* the result rows.  The cycle depends on that order only through the order
\* in which the (day, model) keys first appear, and a key none of whose rows
\* is new is skipped by line 247 wherever it stands.  The orders enumerated
\* are therefore: the keys without a new row first, then every ordering of
\* the keys with a new row; the rows of one key adjacent and by rowid.
RowKey(r) == <<TruncDay(r.credated), _clean_model_name(r.model)>>

RowOrders(S, persisted_ids) ==
    LET newKeys == { RowKey(r) : r \in { x \in S : x.exp_id \notin persisted_ids } }
        oldRows == { r \in S : RowKey(r) \notin newKeys }
    IN { ByExpId(oldRows) \o
         Concat([ i \in 1..Len(ko) |-> ByExpId({ r \in S : RowKey(r) = ko[i] }) ])
           : ko \in Orderings(newKeys) }

ValidRows_All(src) == src

\* the WHERE clause of the extraction query: NOT (model IN invalid_model_values)
ValidRows(src) == { r \in src : r.model \notin invalid_model_values }

\* the loop of _extract_autosubmit_experiments over the result rows
ExtractRows(rows) ==
    [ i \in 1..Len(rows) |->
        [ exp_id   |-> rows[i].exp_id,
          model    |-> _clean_model_name(rows[i].model),
          credated |-> rows[i].credated,
          name     |-> rows[i].name ] ]

----------------------------------------------------------------------------
(* Grouper *)

\* index of key in the insertion-ordered dict, 0 when absent
KeyIndex(groups, key) ==
    IF \E i \in 1..Len(groups) : groups[i].key = key
    THEN CHOOSE i \in 1..Len(groups) : groups[i].key = key
    ELSE 0

\* one iteration of the loop of _process_experiments
AddToGroup(groups, exp) ==
    LET creation_date == TruncDay(exp.credated)
        key == <<creation_date, exp.model>>
        withKey == IF KeyIndex(groups, key) = 0
                   THEN Append(groups, [ key |-> key, model |-> exp.model,
                                         time |-> creation_date, count |-> 0,
                                         experiments |-> <<>> ])
                   ELSE groups
        i == KeyIndex(withKey, key)
    IN [ withKey EXCEPT
           ![i].experiments = Append(@, [ id |-> exp.exp_id, name |-> exp.name,
                                          created_time |-> exp.credated ]),
           ![i].count = @ + 1 ]

\* AutosubmitSyncWorker._process_experiments: the dict as the sequence of its
\* items in insertion order
RECURSIVE ProcessFrom(_, _, _)
ProcessFrom(exps, i, groups) ==
    IF i > Len(exps) THEN groups
    ELSE ProcessFrom(exps, i + 1, AddToGroup(groups, exps[i]))

_process_experiments(exps) == ProcessFrom(exps, 1, <<>>)

\* one item of models_data: its key and the fields of its value
GroupSummary(group) ==
    [ key   |-> group.key,
      model |-> group.model,
      time  |-> group.time,
      count |-> group.count,
      ids   |-> { group.experiments[k].id : k \in 1..Len(group.experiments) },
      n     |-> Len(group.experiments) ]

----------------------------------------------------------------------------
(* Reconciler and Persister: AutosubmitSyncWorker._update_timescaledb *)

NoRecord == [ total_count |-> -1 ]

NewExperiments_NoFilter(exps, existing_experiment_ids) == exps

\* new_experiments: the members of a group whose id is not yet persisted
NewExperiments(exps, existing_experiment_ids) ==
    SelectSeq(exps, LAMBDA e : e.id \notin existing_experiment_ids)

\* candidates for latest_record_query ... order_by(extracted_time.desc()).first():
\* rows of equal extracted_time are returned in an order the database chooses
LatestRecords(pop, model_name) ==
    { r \in pop : /\ r.model = model_name
                  /\ \A q \in pop : q.model = model_name
                                      => q.extracted_time <= r.extracted_time }

RECURSIVE SumCount(_)
SumCount(rows) ==
    IF rows = {} THEN 0
    ELSE LET r == CHOOSE x \in rows : TRUE IN r.count + SumCount(rows \ {r})

\* historical_sum_query: SUM(count) GROUP BY model, 0 when there is no row
HistoricalSum(pop, model_name) ==
    LET rows == { r \in pop : r.model = model_name } IN
    IF rows = {} THEN 0 ELSE SumCount(rows)

\* lines 249-272: the count loaded for a model on its first group with new members
LoadHistoricalCount(pop, model_name, latest) ==
    IF latest # NoRecord THEN latest.total_count
    ELSE HistoricalSum(pop, model_name)

\* the choices .first() can make, one per model
LatestChoices(pop, model_name) ==
    IF LatestRecords(pop, model_name) = {} THEN {NoRecord}
    ELSE LatestRecords(pop, model_name)

RECURSIVE LatestPicks(_, _)
LatestPicks(pop, models) ==
    IF models = {} THEN { << >> }
    ELSE LET m == CHOOSE x \in models : TRUE IN
         { [ k \in DOMAIN f \cup {m} |-> IF k = m THEN r ELSE f[k] ]
             : f \in LatestPicks(pop, models \ {m}), r \in LatestChoices(pop, m) }

NameTaken_Never(visible, v) == FALSE

\* name: str = Field(unique=True): the row v breaks the UNIQUE constraint
NameTaken(visible, v) == \E r \in visible : r.name = v.name

\* INSERT INTO experiments ... ON CONFLICT (id) DO NOTHING, row by row; the
\* UNIQUE constraint on name is not the conflict target and raises.
RECURSIVE InsertExperiments(_, _, _)
InsertExperiments(visible, values, i) ==
    IF i > Len(values) THEN [ ok |-> TRUE, rows |-> visible ]
    ELSE LET v == values[i] IN
         IF \E r \in visible : r.id = v.id
         THEN InsertExperiments(visible, values, i + 1)
         ELSE IF NameTaken(visible, v)
         THEN [ ok |-> FALSE, rows |-> visible ]
         ELSE InsertExperiments(visible \cup {v}, values, i + 1)

\* INSERT INTO metric_models_popularity ... ON CONFLICT (time, model) DO NOTHING
RECURSIVE InsertPopularity(_, _, _)
InsertPopularity(visible, values, i) ==
    IF i > Len(values) THEN visible
    ELSE LET v == values[i] IN
         IF \E r \in visible : r.time = v.time /\ r.model = v.model
         THEN InsertPopularity(visible, values, i + 1)
         ELSE InsertPopularity(visible \cup {v}, values, i + 1)

Commit_Replace(table, pending) == pending

\* session.commit(): the pending rows become visible to everybody
Commit(table, pending) == table \cup pending

Rollback_KeepsExecuted(table, pending) == table \cup pending

\* session.rollback(): the pending rows are discarded
Rollback(table, pending) == table

BatchValues_FirstOnly(batch, model_name) ==
    [ i \in 1..(IF Len(batch) = 0 THEN 0 ELSE 1) |->
        [ id |-> batch[i].id, name |-> batch[i].name, model |-> model_name,
          created_time |-> batch[i].created_time ] ]

\* the rows a batch of new_experiments inserts (lines 299-307)
BatchValues(batch, model_name) ==
    [ i \in 1..Len(batch) |->
        [ id |-> batch[i].id, name |-> batch[i].name, model |-> model_name,
          created_time |-> batch[i].created_time ] ]

MinOf(a, b) == IF a <= b THEN a ELSE b

\* lines 293-320: the batches of one group, from offset i.  st is the state
\* of the session: pendExp the rows inserted and not yet committed, nops the
\* statements executed, err whether a statement raised.  failAt is the
\* number of the store operation that fails (0: none does).
RECURSIVE InsertBatches(_, _, _, _, _, _)
InsertBatches(st, new_experiments, model_name, i, committed, failAt) ==
    IF st.err \/ i >= Len(new_experiments) THEN st
    ELSE LET batch == SubSeq(new_experiments, i + 1,
                             MinOf(i + batch_size, Len(new_experiments)))
             res == InsertExperiments(committed \cup st.pendExp,
                                      BatchValues(batch, model_name), 1)
         IN IF failAt = st.nops + 1 \/ ~res.ok
            THEN [ st EXCEPT !.err = TRUE, !.nops = @ + 1 ]
            ELSE InsertBatches(
                   [ st EXCEPT !.pendExp = res.rows \ committed,
                               !.nops = @ + 1,
                               !.ids = @ \cup { batch[k].id : k \in 1..Len(batch) } ],
                   new_experiments, model_name, i + batch_size, committed, failAt)

\* lines 234-320: one iteration of the loop over models_data.items()
ReconcileGroup(st, group, db, pick, now, failAt) ==
    LET model_name == group.model
        new_experiments == NewExperiments(group.experiments, st.ids)
        new_exp_count == Len(new_experiments)
        loaded == IF model_name \in DOMAIN st.hist
                  THEN st.hist[model_name]
                  ELSE LoadHistoricalCount(db.popularity, model_name, pick[model_name])
        total_count == loaded + new_exp_count
        hist2 == [ m \in DOMAIN st.hist \cup {model_name} |->
                     IF m = model_name THEN total_count ELSE st.hist[m] ]
        emit == group.key \notin st.keys
        entry == [ time |-> group.key[1], model |-> model_name,
                   count |-> new_exp_count, total_count |-> total_count,
                   extracted_time |-> now ]
        logged == [ key |-> group.key,
                    ids |-> { group.experiments[k].id : k \in 1..Len(group.experiments) },
                    new |-> new_exp_count,
                    skipped |-> new_exp_count = 0,
                    before |-> IF new_exp_count = 0 THEN -1 ELSE loaded,
                    after |-> IF new_exp_count = 0 THEN -1 ELSE total_count,
                    emitted |-> new_exp_count # 0 /\ emit ]
    IN IF st.err THEN st
       ELSE IF new_exp_count = 0
       THEN [ st EXCEPT !.log = @ \cup {logged} ]
       ELSE InsertBatches(
              [ st EXCEPT !.hist = hist2,
                          !.entries = IF emit THEN Append(@, entry) ELSE @,
                          !.log = @ \cup {logged} ],
              new_experiments, model_name, 0, db.experiments, failAt)

RECURSIVE ReconcileFrom(_, _, _, _, _, _, _)
ReconcileFrom(st, models_data, i, db, pick, now, failAt) ==
    IF i > Len(models_data) THEN st
    ELSE ReconcileFrom(ReconcileGroup(st, models_data[i], db, pick, now, failAt),
                       models_data, i + 1, db, pick, now, failAt)

\* lines 322-341: the batches of new_model_popularity_entries, from offset i
RECURSIVE InsertPopularityBatches(_, _, _, _)
InsertPopularityBatches(st, i, committed, failAt) ==
    IF st.err \/ i >= Len(st.entries) THEN st
    ELSE LET batch == SubSeq(st.entries, i + 1, MinOf(i + batch_size, Len(st.entries)))
         IN IF failAt = st.nops + 1
            THEN [ st EXCEPT !.err = TRUE, !.nops = @ + 1 ]
            ELSE InsertPopularityBatches(
                   [ st EXCEPT !.pendPop =
                                  InsertPopularity(committed \cup @, batch, 1) \ committed,
                               !.nops = @ + 1 ],
                   i + batch_size, committed, failAt)

\* lines 343-348: session.flush() then session.commit()
FlushAndCommit(st, failAt) ==
    IF st.err THEN st
    ELSE IF failAt = st.nops + 1 \/ failAt = st.nops + 2
    THEN [ st EXCEPT !.err = TRUE, !.nops = failAt ]
    ELSE [ st EXCEPT !.nops = @ + 2 ]

\* the session of _update_timescaledb run to its end: the reads of lines
\* 218-229, the loop, the bucket inserts, flush and commit
RunSession(models_data, db, pick, now, failAt) ==
    LET st0 == [ ids     |-> { r.id : r \in db.experiments },
                 keys    |-> { <<r.time, r.model>> : r \in db.popularity },
                 hist    |-> << >>,
                 entries |-> << >>,
                 pendExp |-> {},
                 pendPop |-> {},
                 nops    |-> 0,
                 err     |-> FALSE,
                 log     |-> {} ]
        st1 == ReconcileFrom(st0, models_data, 1, db, pick, now, failAt)
        st2 == InsertPopularityBatches(st1, 0, db.popularity, failAt)
    IN FlushAndCommit(st2, failAt)

\* AutosubmitSyncWorker._update_timescaledb inside get_db_session: the tables
\* afterwards, and whether it raised
SessionOutcome(st, db) ==
    [ raised      |-> st.err,
      experiments |-> IF st.err THEN Rollback(db.experiments, st.pendExp)
                      ELSE Commit(db.experiments, st.pendExp),
      popularity  |-> IF st.err THEN Rollback(db.popularity, st.pendPop)
                      ELSE Commit(db.popularity, st.pendPop),
      members     |-> st.pendExp,
      buckets     |-> st.pendPop,
      nops        |-> st.nops,
      log         |-> st.log ]

_update_timescaledb(models_data, db, pick, now, failAt) ==
    SessionOutcome(
        CHOOSE st \in { RunSession(models_data, db, pick, now, failAt) } : TRUE, db)

\* lines 218-229: the ids and the (time, model) keys a session reads when it
\* opens, before its loop
SessionReads(db) ==
    [ ids     |-> { r.id : r \in db.experiments },
      keys    |-> { <<r.time, r.model>> : r \in db.popularity },
      hist    |-> << >>,
      entries |-> << >>,
      pendExp |-> {},
      pendPop |-> {},
      nops    |-> 0,
      err     |-> FALSE,
      log     |-> {} ]

----------------------------------------------------------------------------
(* ViewRefresher *)

MaxOf(S) == CHOOSE x \in S : \A y \in S : y <= x

AggregateRows_PerBucket(pop) ==
    { [ model |-> r.model, count |-> r.count, total_count |-> r.total_count,
        last_updated |-> r.extracted_time ] : r \in pop }

\* the SELECT of CREATE MATERIALIZED VIEW mv_latest_popular_models
AggregateRows(pop) ==
    { [ model        |-> m,
        count        |-> SumCount({ r \in pop : r.model = m }),
        total_count  |-> (CHOOSE r \in pop :
                            /\ r.model = m
                            /\ \A q \in pop : q.model = m => q.time <= r.time).total_count,
        last_updated |-> MaxOf({ r.extracted_time : r \in { q \in pop : q.model = m } }) ]
      : m \in { r.model : r \in pop } }

\* create_popular_models_materialized_view: DROP, then CREATE ... WITH NO DATA
EmptyView == [ populated |-> FALSE, rows |-> {} ]

AfterRefresh_Undo(tables, pre, errors) == IF errors > 0 THEN pre ELSE tables

\* refresh_materialized_views works in a session of its own (lines 172-190):
\* when it raises, the rollback of that session leaves the tables as the
\* cycle's session, already committed or rolled back, left them
AfterRefresh(tables, pre, errors) == tables

RefreshView_Keep(v, pop, ok) == v

\* refresh_materialized_views: REFRESH MATERIALIZED VIEW, or nothing when it raises
RefreshView(v, pop, ok) ==
    IF ok THEN [ populated |-> TRUE, rows |-> AggregateRows(pop) ] ELSE v

----------------------------------------------------------------------------
(* Scheduler: BaseWorker and WorkerManager *)

\* the names workers are registered under
Names == { "w1", "w2" }

\* tasks[n] when n is not a key of WorkerManager.tasks
NoTask == [ inst |-> 0, pc |-> "none", outcome |-> "none", stop_requested |-> FALSE ]

\* a task is live from asyncio.create_task until worker.start() returns
Live(t) == t.pc \in { "created", "running", "sleeping" }

\* the manager's methods are called by one caller that awaits each call
\* (main.py lifespan, lines 44-53): no call starts while stop_workers waits
CallerFree == stopper.pc = "idle"

GatherDone_Any(pending) == TRUE

\* asyncio.gather(*pending_tasks) is done when every awaited task is
GatherDone(pending) == pending = {}

AfterCycle_Propagates(outcome) == IF outcome = "error" THEN "done" ELSE "sleeping"

\* BaseWorker.start lines 49-59: whether execute_task returned or raised,
\* the exception is caught and the loop goes on to asyncio.sleep
AfterCycle(outcome) == "sleeping"

AfterSleep_Ends(flag) == "done"

\* the while test of BaseWorker.start after the sleep
AfterSleep(flag) == IF flag THEN "running" ELSE "done"

SchedInitial ==
    /\ workers = [ n \in Names |-> 0 ]
    /\ is_running = << >>
    /\ tasks = [ n \in Names |-> NoTask ]
    /\ stopper = [ pc |-> "idle", pending |-> {} ]
    /\ sched = [ act |-> "init", name |-> "", loops |-> [ n \in Names |-> 0 ] ]

\* WorkerManager.register_worker(n, <a new worker>): BaseWorker.__init__ sets
\* is_running = False; a worker already registered as n is replaced
RegisterWorker(n) ==
    /\ CallerFree
    /\ Len(is_running) < MaxInst
    /\ is_running' = Append(is_running, FALSE)
    /\ workers' = [ workers EXCEPT ![n] = Len(is_running) + 1 ]
    /\ sched' = [ sched EXCEPT !.act = "register", !.name = n ]
    /\ UNCHANGED <<tasks, stopper>>
    /\ UNCHANGED <<syncVars, cleanVars, raceVars, provVars, cacheVars>>

NeedsTask_Always(t) == TRUE

\* line 58: name not in self.tasks or self.tasks[name].done()
NeedsTask(t) == ~Live(t)

\* WorkerManager.start_workers: no await in it suspends, so the loop over
\* the workers runs in one step.  sched.loops[n] counts the tasks created
\* for n whose worker.start() has not returned.
StartWorkers ==
    /\ CallerFree
    /\ tasks' = [ n \in Names |->
                    IF workers[n] # 0 /\ NeedsTask(tasks[n])
                    THEN [ inst |-> workers[n], pc |-> "created",
                           outcome |-> "none", stop_requested |-> FALSE ]
                    ELSE tasks[n] ]
    /\ sched' = [ sched EXCEPT
                    !.act = "start_workers", !.name = "",
                    !.loops = [ n \in Names |->
                                  IF workers[n] # 0 /\ NeedsTask(tasks[n])
                                  THEN @[n] + 1 ELSE @[n] ] ]
    /\ UNCHANGED <<workers, is_running, stopper>>
    /\ UNCHANGED <<syncVars, cleanVars, raceVars, provVars, cacheVars>>

\* the event loop runs a new task for the first time: BaseWorker.start sets
\* is_running, passes the while test and enters execute_task
TaskBegin(n) ==
    /\ tasks[n].pc = "created"
    /\ is_running' = [ is_running EXCEPT ![tasks[n].inst] = TRUE ]
    /\ tasks' = [ tasks EXCEPT ![n].pc = "running" ]
    /\ sched' = [ sched EXCEPT !.act = "begin", !.name = n ]
    /\ UNCHANGED <<workers, stopper>>
    /\ UNCHANGED <<syncVars, cleanVars, raceVars, provVars, cacheVars>>

\* execute_task has returned ("ok") or raised ("error"); the task goes on to
\* asyncio.sleep
CycleEnd(n, outcome) ==
    /\ tasks[n].pc = "running"
    /\ tasks' = [ tasks EXCEPT ![n].pc = AfterCycle(outcome), ![n].outcome = outcome ]
    /\ stopper' = IF AfterCycle(outcome) = "done"
                  THEN [ stopper EXCEPT !.pending = @ \ {n} ] ELSE stopper
    /\ sched' = [ sched EXCEPT
                    !.act = outcome, !.name = n,
                    !.loops[n] = IF AfterCycle(outcome) = "done" THEN @ - 1 ELSE @ ]
    /\ UNCHANGED <<workers, is_running>>
    /\ UNCHANGED <<syncVars, cleanVars, raceVars, provVars, cacheVars>>

\* the sleep is over: the while test of line 48 starts the next cycle or
\* ends the task, which wakes a stop_workers that awaits it
Wake(n) ==
    /\ tasks[n].pc = "sleeping"
    /\ tasks' = [ tasks EXCEPT ![n].pc = AfterSleep(is_running[tasks[n].inst]) ]
    /\ stopper' = IF is_running[tasks[n].inst] THEN stopper
                  ELSE [ stopper EXCEPT !.pending = @ \ {n} ]
    /\ sched' = [ sched EXCEPT
                    !.act = "wake", !.name = n,
                    !.loops[n] = IF is_running[tasks[n].inst] THEN @ ELSE @ - 1 ]
    /\ UNCHANGED <<workers, is_running>>
    /\ UNCHANGED <<syncVars, cleanVars, raceVars, provVars, cacheVars>>

\* WorkerManager.stop_workers up to asyncio.gather: worker.stop() of every
\* registered worker whose name has a live task, then the pending tasks
StopWorkers ==
    /\ CallerFree
    /\ is_running' = [ i \in DOMAIN is_running |->
                         IF \E n \in Names : workers[n] = i /\ Live(tasks[n])
                         THEN FALSE ELSE is_running[i] ]
    /\ tasks' = [ n \in Names |->
                    IF workers[n] # 0 /\ Live(tasks[n])
                    THEN [ tasks[n] EXCEPT !.stop_requested = TRUE ]
                    ELSE tasks[n] ]
    /\ stopper' = LET pending == { n \in Names : Live(tasks[n]) } IN
                  [ pc |-> IF pending = {} THEN "idle" ELSE "waiting",
                    pending |-> pending ]
    /\ sched' = [ sched EXCEPT !.act = "stop_workers", !.name = "" ]
    /\ UNCHANGED workers
    /\ UNCHANGED <<syncVars, cleanVars, raceVars, provVars, cacheVars>>

\* asyncio.gather is done: stop_workers returns
StopReturn ==
    /\ stopper.pc = "waiting"
    /\ GatherDone(stopper.pending)
    /\ stopper' = [ stopper EXCEPT !.pc = "idle" ]
    /\ sched' = [ sched EXCEPT !.act = "stop_returned", !.name = "" ]
    /\ UNCHANGED <<workers, is_running, tasks>>
    /\ UNCHANGED <<syncVars, cleanVars, raceVars, provVars, cacheVars>>

\* execute_task returns
CycleOk(n) == CycleEnd(n, "ok")

\* execute_task raises an Exception
CycleError(n) == CycleEnd(n, "error")

----------------------------------------------------------------------------
(* The sync cycle: AutosubmitSyncWorker.execute_task *)

\* last: the record of the most recent execute_task, kept until the source
\* grows or the process restarts: how it ended (kind), whether it raised,
\* the source it read (src), the rows its session inserted (members,
\* buckets), what its loop did with each group (log), how the run before it
\* ended when that run read the same source (prev), and the tables it
\* started from when its transaction failed (pre), and the number of calls
\* of refresh_materialized_views it made (refreshes) and how many of them
\* raised (refresh_errors), and how many raised in the run before it
\* (prev_errors), the tuples _extract_autosubmit_experiments returned
\* (extracted) and their number (n_extracted), the groups
\* _process_experiments returned (groups: key, model, time, count, the ids
\* and the length n of the experiment list) and their number (n_groups)
NoTables == [ experiments |-> {}, popularity |-> {} ]

NoCycle ==
    [ kind |-> "none", src |-> {}, members |-> {}, buckets |-> {}, log |-> {},
      raised |-> FALSE, prev |-> "none", pre |-> NoTables, refreshes |-> 0,
      refresh_errors |-> 0, prev_errors |-> 0, extracted |-> {},
      n_extracted |-> 0, groups |-> {}, n_groups |-> 0 ]

\* how the previous run ended, when it read the source as it is now
PrevKind == IF last.src = source THEN last.kind ELSE "other"

\* a worker process that is not inside _update_timescaledb: pc is its
\* position, models_data and i the loop over the groups, st the session, and
\* of its latest run: the rows whose insert was ignored on a conflict
\* (ignoredIds, ignoredKeys), the rows its statements carried (triedExp,
\* triedPop), the rows it committed (members, buckets) and how it ended
NoSession ==
    [ pc |-> "idle", models_data |-> << >>, i |-> 0, st |-> SessionReads(NoTables),
      ignoredIds |-> {}, ignoredKeys |-> {}, triedExp |-> {}, triedPop |-> {},
      members |-> {}, buckets |-> {}, outcome |-> "none" ]

\* the worker processes that share the TimescaleDB
Sessions == { 1, 2 }

\* heapExp and heapPop are the keys of the rows the tables physically hold,
\* each with the open session that inserted it (0 when it is committed)
NoRace == [ sess |-> [ s \in Sessions |-> NoSession ], runs |-> 0,
            heapExp |-> {}, heapPop |-> {} ]

\* the catalog after initialize_database: the backing table exists and the
\* materialized view was created WITH NO DATA
Provisioned ==
    [ table |-> TRUE, obj |-> "matview", populated |-> FALSE,
      act |-> "init", fault |-> "none", raised |-> FALSE, calls |-> 0,
      failures |-> 0 ]

\* _cache[key] and _stats[key] when key is not in the dict
NoEntry == [ value |-> "", expiry |-> -1 ]
NoStats == [ hits |-> -1, misses |-> -1 ]

\* the keys of the cache
Keys == { "k1", "k2" }

\* MemoryCache.__init__(default_ttl) at time 0, and no call made yet: act,
\* key and ret are the latest call, its key and what it returned, removed
\* what the latest clean_expired returned, and sets[key] the latest
\* set(key, value, ttl) not followed by a delete of key or a clear
NewCache(default_ttl) ==
    [ _cache |-> [ k \in Keys |-> NoEntry ], _stats |-> [ k \in Keys |-> NoStats ],
      _default_ttl |-> default_ttl, now |-> 0,
      act |-> "init", key |-> "", ret |-> "None", removed |-> 0,
      sets |-> [ k \in Keys |-> [ value |-> "", at |-> 0, given |-> FALSE,
                                  ttl |-> 0 ] ] ]

\* limit: Optional[int] = None
NoLimit == -1

\* no request was made yet
NoRequest == [ limit |-> NoLimit, hit |-> FALSE, raised |-> FALSE,
               response |-> << >> ]

\* the threads that call the cache
Threads == { 1, 2 }

Idle == [ pc |-> "idle", op |-> "", key |-> "", now |-> 0 ]

\* a MemoryCache(default_ttl = 1) that no thread has called yet: _lock is the
\* thread that holds it (0: none), seen[t] what thread t has read of _cache
\* and _stats, gets[k] the number of get(k) that returned
NoThreads ==
    [ _cache |-> [ k \in Keys |-> -1 ], _stats |-> [ k \in Keys |-> NoStats ],
      _lock |-> 0, now |-> 0, calls |-> 0,
      thr |-> [ t \in Threads |-> Idle ],
      seen |-> [ t \in Threads |-> << >> ],
      gets |-> [ k \in Keys |-> 0 ] ]

OtherInitial ==
    /\ race = NoRace
    /\ prov = Provisioned
    /\ cache = NewCache(1)
    /\ mem = NoThreads
    /\ req = NoRequest

SyncInitial ==
    /\ source = {}
    /\ experiments = {}
    /\ popularity = {}
    /\ view = EmptyView
    /\ current_time = 1
    /\ op = "init"
    /\ last = NoCycle

Init ==
    /\ SyncInitial
    /\ SchedInitial
    /\ clean = NoClean
    /\ OtherInitial

\* the normalisation on its own, applied to every model name
CleanInit ==
    /\ SyncInitial
    /\ SchedInitial
    /\ \E x \in ModelNames : clean = [ NoClean EXCEPT !.model_name = x ]
    /\ OtherInitial

CleanNext == CleanOnce \/ CleanTwice

CleanSpec == CleanInit /\ [][CleanNext]_vars

\* the valid experiments of the source that are not persisted yet
Backlog(src, exps) ==
    { r \in ValidRows(src) : \A e \in exps : e.id # r.exp_id }

\* the upstream system records a new experiment
AddSource ==
    /\ Cardinality(source) < Len(SourceUniverse)
    /\ Cardinality(Backlog(source, experiments)) < MaxBacklog
    /\ source' = source \cup { SourceUniverse[Cardinality(source) + 1] }
    /\ op' = "add"
    /\ last' = NoCycle
    /\ UNCHANGED <<experiments, popularity, view, current_time>>
    /\ UNCHANGED <<schedVars, cleanVars, raceVars, provVars, cacheVars>>

\* the process is started again: initialize_database recreates the view and
\* register_default_workers builds AutosubmitSyncWorker() at a later now()
Restart ==
    /\ current_time < MaxTime
    /\ current_time' = current_time + 1
    /\ view' = EmptyView
    /\ op' = "restart"
    /\ last' = NoCycle
    /\ UNCHANGED <<source, experiments, popularity>>
    /\ UNCHANGED <<schedVars, cleanVars, raceVars, provVars, cacheVars>>

ExecuteTaskSourceError_Refreshes ==
    /\ op' = "cycle"
    /\ view' = RefreshView(view, popularity, TRUE)
    /\ last' = [ NoCycle EXCEPT !.kind = "source_error", !.src = source,
                                !.raised = TRUE, !.prev = PrevKind,
                                !.refreshes = 1,
                                !.prev_errors = last.refresh_errors ]
    /\ UNCHANGED <<source, experiments, popularity, current_time>>
    /\ UNCHANGED <<schedVars, cleanVars, raceVars, provVars, cacheVars>>

\* execute_task when the Autosubmit database cannot be read: line 81 raises,
\* line 105 logs and re-raises
ExecuteTaskSourceError ==
    /\ op' = "cycle"
    /\ last' = [ NoCycle EXCEPT !.kind = "source_error", !.src = source,
                                !.raised = TRUE, !.prev = PrevKind,
                                !.prev_errors = last.refresh_errors ]
    /\ UNCHANGED <<source, experiments, popularity, view, current_time>>
    /\ UNCHANGED <<schedVars, cleanVars, raceVars, provVars, cacheVars>>

ExecuteTaskEmpty_Refreshes ==
    /\ ValidRows(source) = {}
    /\ op' = "cycle"
    /\ view' = RefreshView(view, popularity, TRUE)
    /\ last' = [ NoCycle EXCEPT !.kind = "empty", !.src = source, !.prev = PrevKind,
                                !.refreshes = 1,
                                !.prev_errors = last.refresh_errors ]
    /\ UNCHANGED <<source, experiments, popularity, current_time>>
    /\ UNCHANGED <<schedVars, cleanVars, raceVars, provVars, cacheVars>>

\* execute_task when no valid experiment is extracted: lines 83-87
ExecuteTaskEmpty ==
    /\ ValidRows(source) = {}
    /\ op' = "cycle"
    /\ last' = [ NoCycle EXCEPT !.kind = "empty", !.src = source, !.prev = PrevKind,
                                !.prev_errors = last.refresh_errors ]
    /\ UNCHANGED <<source, experiments, popularity, view, current_time>>
    /\ UNCHANGED <<schedVars, cleanVars, raceVars, provVars, cacheVars>>

\* the models of the extracted experiments: the models whose latest record
\* a cycle may have to load
ModelsOf(src) == { _clean_model_name(r.model) : r \in ValidRows(src) }

\* execute_task with at least one valid experiment: lines 89-103.  The inner
\* refresh (line 352) runs after a commit and its failure is swallowed, the
\* outer one (line 99) runs whether or not the update raised and its failure
\* is re-raised by line 109.
ExecuteTask ==
    /\ ValidRows(source) # {}
    /\ \E rows \in RowOrders(ValidRows(source), { e.id : e \in experiments }) :
       \E pick \in LatestPicks(popularity, ModelsOf(source)) :
       \E db \in { [ experiments |-> experiments, popularity |-> popularity ] } :
       \E extracted \in { ExtractRows(rows) } :
       \E models_data \in { _process_experiments(extracted) } :
       \E nops \in { RunSession(models_data, db, pick, current_time, 0).nops } :
       \E failAt \in 0..nops :
       \E upd \in { _update_timescaledb(models_data, db, pick, current_time, failAt) } :
         \E innerOk \in (IF upd.raised THEN {TRUE} ELSE BOOLEAN) :
         \E outerOk \in BOOLEAN :
         \E errors \in { (IF innerOk THEN 0 ELSE 1) + (IF outerOk THEN 0 ELSE 1) } :
         \E tables \in { AfterRefresh([ experiments |-> upd.experiments,
                                        popularity |-> upd.popularity ], db, errors) } :
              /\ experiments' = tables.experiments
              /\ popularity' = tables.popularity
              /\ view' = RefreshView(
                            IF upd.raised THEN view
                            ELSE RefreshView(view, upd.popularity, innerOk),
                            upd.popularity, outerOk)
              /\ last' = [ kind    |-> IF upd.raised THEN "persist_error"
                                       ELSE "committed",
                           src     |-> source,
                           members |-> upd.members,
                           buckets |-> upd.buckets,
                           log     |-> upd.log,
                           raised  |-> ~outerOk,
                           prev    |-> PrevKind,
                           pre     |-> IF upd.raised THEN db ELSE NoTables,
                           refreshes |-> IF upd.raised THEN 1 ELSE 2,
                           refresh_errors |-> errors,
                           prev_errors |-> last.refresh_errors,
                           extracted |-> { extracted[i] : i \in 1..Len(extracted) },
                           n_extracted |-> Len(extracted),
                           groups |-> { GroupSummary(models_data[i]) :
                                          i \in 1..Len(models_data) },
                           n_groups |-> Len(models_data) ]
    /\ op' = "cycle"
    /\ UNCHANGED <<source, current_time>>
    /\ UNCHANGED <<schedVars, cleanVars, raceVars, provVars, cacheVars>>

Next == AddSource \/ Restart \/ ExecuteTaskSourceError \/ ExecuteTaskEmpty \/ ExecuteTask

Spec == Init /\ [][Next]_vars

\* the upstream system records a new experiment while a cycle is due: one
\* more experiment than in Spec can be waiting
ChainAddSource ==
    /\ Cardinality(source) < Len(SourceUniverse)
    /\ Cardinality(Backlog(source, experiments)) < MaxBacklog + 1
    /\ source' = source \cup { SourceUniverse[Cardinality(source) + 1] }
    /\ op' = "add"
    /\ last' = NoCycle
    /\ UNCHANGED <<experiments, popularity, view, current_time>>
    /\ UNCHANGED <<schedVars, cleanVars, raceVars, provVars, cacheVars>>

\* the cycles of one worker, never restarted, over a source that grows faster
ChainNext == ChainAddSource \/ ExecuteTaskEmpty \/ ExecuteTask

ChainSpec == Init /\ [][ChainNext]_vars

\* the scheduler on its own: the worker loops and the manager's calls
SchedNext ==
    \/ \E n \in Names : RegisterWorker(n)
    \/ StartWorkers
    \/ \E n \in Names : TaskBegin(n)
    \/ \E n \in Names : CycleOk(n)
    \/ \E n \in Names : CycleError(n)
    \/ \E n \in Names : Wake(n)
    \/ StopWorkers
    \/ StopReturn

SchedSpec == Init /\ [][SchedNext]_vars

\* the event loop runs every task that is ready: a created task begins, a
\* cycle ends, a sleep ends, a finished gather resumes its caller
SchedFairness ==
    /\ \A n \in Names : WF_vars(TaskBegin(n))
    /\ \A n \in Names : WF_vars(CycleOk(n) \/ CycleError(n))
    /\ \A n \in Names : WF_vars(Wake(n))
    /\ WF_vars(StopReturn)

SchedFairSpec == Init /\ [][SchedNext]_vars /\ SchedFairness

----------------------------------------------------------------------------
(* Concurrent cycles: _update_timescaledb in two worker processes *)

\* current_time of the worker of process s, fixed when it was built
WorkerTime(s) == s

\* the tables as a session that reads now sees them (READ COMMITTED)
Committed == [ experiments |-> experiments, popularity |-> popularity ]

\* Rows another open session inserted and has not committed: an INSERT ...
\* ON CONFLICT of a row with one of these keys waits for that session to end.
OthersPendingIds_NoWait(s) == {}

\* the ids of those rows in experiments
OthersPendingIds(s) ==
    { r.id : r \in UNION { race.sess[o].st.pendExp : o \in Sessions \ {s} } }

\* the keys of those rows in metric_models_popularity
OthersPendingKeys(s) ==
    { <<r.time, r.model>> :
        r \in UNION { race.sess[o].st.pendPop : o \in Sessions \ {s} } }

AfterConflict_Raises(st, conflicts) ==
    IF conflicts # {} THEN [ st EXCEPT !.err = TRUE ] ELSE st

\* on_conflict_do_nothing (lines 311-313 and 336-338): the statement skips
\* the rows whose key exists (conflicts) and succeeds
AfterConflict(st, conflicts) == st

\* execute_task up to the reads of lines 218-229: extraction, grouping and
\* the snapshot of existing ids and keys
RaceBegin(s) ==
    /\ race.sess[s].pc = "idle"
    /\ race.runs < MaxRuns
    /\ ValidRows(source) # {}
    /\ \E rows \in RowOrders(ValidRows(source), { e.id : e \in experiments }) :
       \E models_data \in { _process_experiments(ExtractRows(rows)) } :
         race' = [ race EXCEPT
                     !.runs = @ + 1,
                     !.sess[s] = [ NoSession EXCEPT
                                     !.pc = "loop",
                                     !.models_data = models_data,
                                     !.i = 1,
                                     !.st = SessionReads(Committed) ] ]
    /\ UNCHANGED <<syncVars, schedVars, cleanVars, provVars, cacheVars>>

\* one iteration of the loop of lines 234-320 (a group's batches are one
\* statement, batch_size being 100): it waits while a row it inserts is
\* pending in another session
RaceGroup(s) ==
    LET me == race.sess[s]
        group == me.models_data[me.i]
        new_experiments == NewExperiments(group.experiments, me.st.ids)
        new_ids == { new_experiments[k].id : k \in 1..Len(new_experiments) }
    IN /\ me.pc = "loop"
       /\ new_ids \cap OthersPendingIds(s) = {}
       /\ \E pick \in LatestPicks(popularity, { group.model }) :
          \E st2 \in { AfterConflict(
                          ReconcileGroup(me.st, group, Committed, pick,
                                         WorkerTime(s), 0),
                          { e.id : e \in experiments } \cap new_ids) } :
            race' = [ race EXCEPT
                        !.heapExp = @ \cup { [ id |-> r.id, by |-> s ] :
                                               r \in st2.pendExp \ me.st.pendExp },
                        !.sess[s] =
                        [ me EXCEPT
                            !.st = st2,
                            !.i = @ + 1,
                            !.pc = IF st2.err THEN "failed"
                                   ELSE IF me.i = Len(me.models_data) THEN "buckets"
                                   ELSE "loop",
                            !.ignoredIds = @ \cup ({ e.id : e \in experiments } \cap new_ids),
                            !.triedExp = @ \cup
                               { BatchValues(new_experiments, group.model)[k] :
                                   k \in 1..Len(new_experiments) } ] ]
       /\ UNCHANGED <<syncVars, schedVars, cleanVars, provVars, cacheVars>>

\* lines 322-341: the insert of new_model_popularity_entries
RaceBuckets(s) ==
    LET me == race.sess[s]
        entryKeys == { <<me.st.entries[k].time, me.st.entries[k].model>> :
                         k \in 1..Len(me.st.entries) }
    IN /\ me.pc = "buckets"
       /\ entryKeys \cap OthersPendingKeys(s) = {}
       /\ \E st2 \in { AfterConflict(
                          InsertPopularityBatches(me.st, 0, popularity, 0),
                          { <<r.time, r.model>> : r \in popularity } \cap entryKeys) } :
            race' = [ race EXCEPT
                        !.heapPop = @ \cup { [ time |-> r.time, model |-> r.model,
                                               by |-> s ] :
                                               r \in st2.pendPop \ me.st.pendPop },
                        !.sess[s] =
                        [ me EXCEPT
                            !.st = st2,
                            !.pc = IF st2.err THEN "failed" ELSE "flush",
                            !.ignoredKeys =
                               { <<r.time, r.model>> : r \in popularity } \cap entryKeys,
                            !.triedPop = { me.st.entries[k] :
                                             k \in 1..Len(me.st.entries) } ] ]
       /\ UNCHANGED <<syncVars, schedVars, cleanVars, provVars, cacheVars>>

\* lines 343-348: flush and commit
RaceCommit(s) ==
    LET me == race.sess[s] IN
    /\ me.pc = "flush"
    /\ experiments' = Commit(experiments, me.st.pendExp)
    /\ popularity' = Commit(popularity, me.st.pendPop)
    /\ race' = [ race EXCEPT
                   !.heapExp = { IF r.by = s THEN [ r EXCEPT !.by = 0 ] ELSE r :
                                   r \in @ },
                   !.heapPop = { IF r.by = s THEN [ r EXCEPT !.by = 0 ] ELSE r :
                                   r \in @ },
                   !.sess[s] =
                   [ me EXCEPT !.pc = "refresh", !.outcome = "committed",
                               !.members = me.st.pendExp, !.buckets = me.st.pendPop,
                               !.models_data = << >>, !.i = 0,
                               !.st = SessionReads(NoTables) ] ]
    /\ UNCHANGED <<source, view, current_time, op, last>>
    /\ UNCHANGED <<schedVars, cleanVars, provVars, cacheVars>>

\* a statement, the flush or the commit raises (a lost connection, a
\* deadlock the database breaks, a constraint): line 367 or get_db_session
\* rolls back
RaceAbort(s) ==
    LET me == race.sess[s] IN
    /\ me.pc \in { "loop", "buckets", "flush", "failed" }
    /\ experiments' = Rollback(experiments, me.st.pendExp)
    /\ popularity' = Rollback(popularity, me.st.pendPop)
    /\ race' = [ race EXCEPT
                   !.heapExp = { r \in @ : r.by # s },
                   !.heapPop = { r \in @ : r.by # s },
                   !.sess[s] =
                   [ me EXCEPT !.pc = "refresh", !.outcome = "raised",
                               !.models_data = << >>, !.i = 0,
                               !.st = SessionReads(NoTables) ] ]
    /\ UNCHANGED <<source, view, current_time, op, last>>
    /\ UNCHANGED <<schedVars, cleanVars, provVars, cacheVars>>

\* the refreshes that end execute_task: line 352 after a commit, line 99 always
RaceRefresh(s) ==
    LET me == race.sess[s] IN
    /\ me.pc = "refresh"
    /\ \E innerOk \in (IF me.outcome = "raised" THEN {TRUE} ELSE BOOLEAN) :
       \E outerOk \in BOOLEAN :
         view' = RefreshView(IF me.outcome = "raised" THEN view
                             ELSE RefreshView(view, popularity, innerOk),
                             popularity, outerOk)
    /\ race' = [ race EXCEPT !.sess[s] = NoSession ]
    /\ UNCHANGED <<source, experiments, popularity, current_time, op, last>>
    /\ UNCHANGED <<schedVars, cleanVars, provVars, cacheVars>>

\* the upstream system records a new experiment while cycles can still begin
RaceAddSource == race.runs < MaxRuns /\ AddSource

RaceNext ==
    \/ RaceAddSource
    \/ \E s \in Sessions : RaceBegin(s)
    \/ \E s \in Sessions : RaceGroup(s)
    \/ \E s \in Sessions : RaceBuckets(s)
    \/ \E s \in Sessions : RaceCommit(s)
    \/ \E s \in Sessions : RaceAbort(s)
    \/ \E s \in Sessions : RaceRefresh(s)

RaceSpec == Init /\ [][RaceNext]_vars

----------------------------------------------------------------------------
(* Provisioning and refresh of the materialized view *)

\* a database in which nothing was created yet
FreshCatalog ==
    [ table |-> FALSE, obj |-> "none", populated |-> FALSE,
      act |-> "init", fault |-> "none", raised |-> FALSE, calls |-> 0,
      failures |-> 0 ]

\* the statements of create and refresh that a fault can make raise;
\* prov.fault records the one of the last call
ProvFaults == { "none", "drop", "create", "refresh" }

\* create_popular_models_materialized_view on catalog p; fault is the
\* statement that fails.  Returns the catalog afterwards and whether it raised.
\*  - lines 33-52: raise when metric_models_popularity does not exist
\*  - lines 54-73: DROP MATERIALIZED VIEW IF EXISTS; on a plain table of that
\*    name the statement raises and the DROP TABLE of line 69 runs in the same,
\*    now aborted, transaction and raises too
\*  - lines 75-143: CREATE MATERIALIZED VIEW ... WITH NO DATA in a third session
create_popular_models_materialized_view(p, fault) ==
    IF ~p.table THEN [ cat |-> p, raised |-> TRUE ]
    ELSE IF p.obj = "table" \/ fault = "drop" THEN [ cat |-> p, raised |-> TRUE ]
    ELSE IF fault = "create"
    THEN [ cat |-> [ p EXCEPT !.obj = "none", !.populated = FALSE ], raised |-> TRUE ]
    ELSE [ cat |-> [ p EXCEPT !.obj = "matview", !.populated = FALSE ],
           raised |-> FALSE ]

Reraise_Swallow(raised) == FALSE

\* lines 194-206: both except clauses of refresh_materialized_views raise
Reraise(raised) == raised

\* refresh_materialized_views on catalog p: the view is created when
\* pg_matviews does not list it (lines 172-188), then refreshed (line 190)
refresh_materialized_views(p, fault) ==
    LET created == IF p.obj # "matview"
                   THEN create_popular_models_materialized_view(p, fault)
                   ELSE [ cat |-> p, raised |-> FALSE ]
    IN IF created.raised THEN [ cat |-> created.cat, raised |-> Reraise(TRUE) ]
       ELSE IF fault = "refresh" THEN [ cat |-> created.cat, raised |-> Reraise(TRUE) ]
       ELSE [ cat |-> [ created.cat EXCEPT !.populated = TRUE ], raised |-> FALSE ]

\* a call of refresh_materialized_views; failures counts the calls that
\* raised since the last one that did not
ProvRefresh ==
    /\ prov.calls < MaxCalls
    /\ \E fault \in ProvFaults :
       \E res \in { refresh_materialized_views(prov, fault) } :
         prov' = [ res.cat EXCEPT !.act = "refresh", !.fault = fault,
                                  !.raised = res.raised,
                                  !.calls = prov.calls + 1,
                                  !.failures = IF res.raised THEN prov.failures + 1
                                               ELSE 0 ]
    /\ UNCHANGED <<syncVars, schedVars, cleanVars, raceVars, cacheVars>>

\* initialize_database: initialize_model_popularity_table, then
\* create_popular_models_materialized_view
ProvInitializeDatabase ==
    /\ prov.calls < MaxCalls
    /\ \E fault \in ProvFaults \ { "refresh" } :
       \E res \in { create_popular_models_materialized_view(
                      [ prov EXCEPT !.table = TRUE ], fault) } :
         prov' = [ res.cat EXCEPT !.act = "initialize", !.fault = fault,
                                  !.raised = res.raised,
                                  !.calls = prov.calls + 1 ]
    /\ UNCHANGED <<syncVars, schedVars, cleanVars, raceVars, cacheVars>>

\* an operator drops the backing table, and with it the view that depends on it
ProvDropTable ==
    /\ prov.table
    /\ prov' = [ prov EXCEPT !.table = FALSE,
                             !.obj = IF @ = "matview" THEN "none" ELSE @,
                             !.populated = FALSE,
                             !.act = "drop_table", !.fault = "none",
                             !.raised = FALSE ]
    /\ UNCHANGED <<syncVars, schedVars, cleanVars, raceVars, cacheVars>>

\* something creates a plain table under the name mv_latest_popular_models
ProvPlainTable ==
    /\ prov.obj = "none"
    /\ prov' = [ prov EXCEPT !.obj = "table", !.act = "plain_table",
                             !.fault = "none", !.raised = FALSE ]
    /\ UNCHANGED <<syncVars, schedVars, cleanVars, raceVars, cacheVars>>

\* an operator drops whatever is under the name mv_latest_popular_models
ProvDropObject ==
    /\ prov.obj # "none"
    /\ prov' = [ prov EXCEPT !.obj = "none", !.populated = FALSE,
                             !.act = "drop_object", !.fault = "none",
                             !.raised = FALSE ]
    /\ UNCHANGED <<syncVars, schedVars, cleanVars, raceVars, cacheVars>>

ProvInit ==
    /\ SyncInitial
    /\ SchedInitial
    /\ clean = NoClean
    /\ race = NoRace
    /\ prov = FreshCatalog
    /\ cache = NewCache(1)
    /\ mem = NoThreads
    /\ req = NoRequest

ProvNext ==
    \/ ProvRefresh
    \/ ProvInitializeDatabase
    \/ ProvDropTable
    \/ ProvPlainTable
    \/ ProvDropObject

ProvSpec == ProvInit /\ [][ProvNext]_vars

----------------------------------------------------------------------------
(* The in-memory cache: MemoryCache *)

\* the values stored, the ttl arguments given to set, and the default_ttl
\* arguments given to the constructor
Values == { "v1", "v2" }
TtlChoices == { 0, 1 }
DefaultTtls == { 2 }

\* what a method returns: None, True, False or a cached value
None == "None"

\* cache.sets[key] when no set of key is in effect
NoSet == [ value |-> "", at |-> 0, given |-> FALSE, ttl |-> 0 ]

\* hits + misses of one key
Requests(stats) == IF stats = NoStats THEN 0 ELSE stats.hits + stats.misses

\* lines 41-43, 49-51 and 56-58: the key's counters, created on first use
Counted(stats, field) ==
    LET s == IF stats = NoStats THEN [ hits |-> 0, misses |-> 0 ] ELSE stats
    IN [ s EXCEPT ![field] = @ + 1 ]

\* MemoryCache.get(key)
CacheGet(key) ==
    /\ Requests(cache._stats[key]) < MaxGets
    /\ cache' =
         IF cache._cache[key] = NoEntry
         THEN [ cache EXCEPT !._stats[key] = Counted(@, "misses"),
                             !.act = "get", !.key = key, !.ret = None ]
         ELSE IF cache._cache[key].expiry < cache.now
         THEN [ cache EXCEPT !._stats[key] = Counted(@, "misses"),
                             !._cache[key] = NoEntry,
                             !.act = "get", !.key = key, !.ret = None ]
         ELSE [ cache EXCEPT !._stats[key] = Counted(@, "hits"),
                             !.act = "get", !.key = key,
                             !.ret = cache._cache[key].value ]
    /\ UNCHANGED <<syncVars, schedVars, cleanVars, raceVars, provVars, mem, req>>

Expiry_DefaultOnly(now, given, ttl, default_ttl) == now + default_ttl

\* line 72: time.time() + (ttl if ttl is not None else self._default_ttl)
Expiry(now, given, ttl, default_ttl) ==
    now + (IF given THEN ttl ELSE default_ttl)

\* MemoryCache.set(key, value, ttl), ttl being None when not given
CacheSet(key, value, given, ttl) ==
    /\ cache' = [ cache EXCEPT
                    !._cache[key] =
                       [ value |-> value,
                         expiry |-> Expiry(cache.now, given, ttl,
                                           cache._default_ttl) ],
                    !.sets[key] = [ value |-> value, at |-> cache.now,
                                    given |-> given, ttl |-> ttl ],
                    !.act = "set", !.key = key, !.ret = None ]
    /\ UNCHANGED <<syncVars, schedVars, cleanVars, raceVars, provVars, mem, req>>

\* lines 86-89: what delete returns when the key was, or was not, in _cache
DeleteResult(present) == IF present THEN "False" ELSE "True"

\* MemoryCache.delete(key)
CacheDelete(key) ==
    /\ cache' = [ cache EXCEPT
                    !._cache[key] = NoEntry,
                    !.sets[key] = NoSet,
                    !.act = "delete", !.key = key,
                    !.ret = DeleteResult(cache._cache[key] # NoEntry) ]
    /\ UNCHANGED <<syncVars, schedVars, cleanVars, raceVars, provVars, mem, req>>

\* MemoryCache.clear(): the statistics are kept
CacheClear ==
    /\ cache' = [ cache EXCEPT
                    !._cache = [ k \in Keys |-> NoEntry ],
                    !.sets = [ k \in Keys |-> NoSet ],
                    !.act = "clear", !.key = "", !.ret = None ]
    /\ UNCHANGED <<syncVars, schedVars, cleanVars, raceVars, provVars, mem, req>>

\* MemoryCache.clean_expired(): returns the number of entries removed
CacheCleanExpired ==
    LET expired_keys == { k \in Keys : /\ cache._cache[k] # NoEntry
                                       /\ cache._cache[k].expiry < cache.now }
    IN /\ cache' = [ cache EXCEPT
                       !._cache = [ k \in Keys |-> IF k \in expired_keys THEN NoEntry
                                                   ELSE cache._cache[k] ],
                       !.act = "clean_expired", !.key = "", !.ret = None,
                       !.removed = Cardinality(expired_keys) ]
       /\ UNCHANGED <<syncVars, schedVars, cleanVars, raceVars, provVars, mem, req>>

\* time.time() advances
CacheTick ==
    /\ cache.now < MaxClock
    /\ cache' = [ cache EXCEPT !.now = @ + 1, !.act = "tick", !.key = "",
                               !.ret = None ]
    /\ UNCHANGED <<syncVars, schedVars, cleanVars, raceVars, provVars, mem, req>>

CacheInit ==
    /\ SyncInitial
    /\ SchedInitial
    /\ clean = NoClean
    /\ race = NoRace
    /\ prov = Provisioned
    /\ \E default_ttl \in DefaultTtls : cache = NewCache(default_ttl)
    /\ mem = NoThreads
    /\ req = NoRequest

CacheNext ==
    \/ \E key \in Keys : CacheGet(key)
    \/ \E key \in Keys, value \in Values :
         \/ CacheSet(key, value, FALSE, 0)
         \/ \E ttl \in TtlChoices : CacheSet(key, value, TRUE, ttl)
    \/ \E key \in Keys : CacheDelete(key)
    \/ CacheClear
    \/ CacheCleanExpired
    \/ CacheTick

CacheSpec == CacheInit /\ [][CacheNext]_vars

----------------------------------------------------------------------------
(* Properties of the sync cycle *)

PersistedIds == { e.id : e \in experiments }

\* C1: replay invariance.  A cycle that runs after a committed cycle over the
\* same source inserts no experiment and no popularity row; and in any
\* cycle, a group whose member ids were all persisted before the cycle is
\* skipped: it advances no historical count and no bucket is written for
\* its key.
C1_ReplayInvariance ==
    [][ op' = "cycle" =>
          /\ (PrevKind = "committed" =>
                 /\ experiments' = experiments
                 /\ popularity' = popularity)
          /\ \A g \in last'.log :
                g.ids \subseteq PersistedIds =>
                  /\ g.skipped
                  /\ g.after = -1
                  /\ \A b \in popularity' \ popularity : <<b.time, b.model>> # g.key
      ]_vars

\* a replay has run: a cycle over the source of the committed cycle before it
C1_Witness ==
    /\ op = "cycle"
    /\ last.prev = "committed"
    /\ last.kind = "committed"
    /\ last.log # {}
    /\ experiments # {}

\* C2: all-or-nothing persist.  A cycle either commits every row its session
\* inserted or leaves both tables as they were; after a failed insert, flush
\* or commit no row of the cycle is visible.
C2_AllOrNothing ==
    [][ op' = "cycle" =>
          \/ /\ last'.kind = "committed"
             /\ experiments' = experiments \cup last'.members
             /\ popularity' = popularity \cup last'.buckets
          \/ /\ last'.kind # "committed"
             /\ experiments' = experiments
             /\ popularity' = popularity
      ]_vars

\* a transaction failed after some of its inserts had been executed
C2_Witness ==
    /\ op = "cycle"
    /\ last.kind = "persist_error"
    /\ last.members # {}
    /\ last.members \cap experiments = {}

\* C3: conservation.  For every model, the total_count of a latest bucket
\* (by extracted_time) equals the sum of count over the model's buckets.
C3_Conservation ==
    \A m \in { r.model : r \in popularity } :
        \E b \in LatestRecords(popularity, m) :
            b.total_count = SumCount({ r \in popularity : r.model = m })

\* C4: monotonicity.  For every model, a bucket extracted later has a
\* total_count at least that of a bucket extracted earlier.
C4_Monotonicity ==
    \A b1 \in popularity : \A b2 \in popularity :
        (b1.model = b2.model /\ b1.extracted_time < b2.extracted_time)
            => b1.total_count <= b2.total_count

\* the counts a new bucket of model m may chain from: the total_count of a
\* latest bucket persisted before the cycle, 0 without history, or the
\* total_count of another bucket the same cycle wrote
ChainBases(pop, pop2, b) ==
    (IF LatestRecords(pop, b.model) = {} THEN {0}
     ELSE { r.total_count : r \in LatestRecords(pop, b.model) })
    \cup { r.total_count : r \in { x \in pop2 \ pop : x.model = b.model /\ x # b } }

\* C5: cross-cycle chaining.  The total_count of a bucket a cycle writes is
\* the most recent known total of its model plus the bucket's own count.
C5_CrossCycleChaining ==
    [][ op' = "cycle" =>
          \A b \in popularity' \ popularity :
              (b.total_count - b.count) \in ChainBases(popularity, popularity', b)
      ]_vars

\* C6: after a committed cycle, for every model the total_count of a latest
\* bucket is the number of experiments persisted with that model.
C6_TotalIsMemberCount ==
    (op = "cycle" /\ last.kind = "committed") =>
        \A m \in { e.model : e \in experiments } :
            \E b \in LatestRecords(popularity, m) :
                b.total_count = Cardinality({ e \in experiments : e.model = m })

\* C7: append-only, frozen history.  No step removes or changes a persisted
\* experiment or popularity row.
C7_AppendOnly ==
    [][ experiments \subseteq experiments' /\ popularity \subseteq popularity' ]_vars

\* a committed cycle met new experiments for a (day, model) whose bucket was
\* already persisted
C7_Witness ==
    /\ op = "cycle"
    /\ last.kind = "committed"
    /\ \E g \in last.log : ~g.skipped /\ ~g.emitted
    /\ popularity # {}

\* the tables a committed cycle can leave behind from the tables db
CommittedOutcomes(src, db, now) ==
    UNION { { [ experiments |-> u.experiments, popularity |-> u.popularity ]
                : u \in { x \in { _update_timescaledb(
                                     _process_experiments(ExtractRows(rows)),
                                     db, pick, now, 0) } : ~x.raised } }
            : rows \in RowOrders(ValidRows(src), { e.id : e \in db.experiments }),
              pick \in LatestPicks(db.popularity, ModelsOf(src)) }

\* C8: recovery.  A committed cycle that follows a failed transaction over
\* the same source leaves the tables in a state a committed cycle could have
\* left from the tables the failed cycle started from.
C8_Recovery ==
    [][ (op' = "cycle" /\ PrevKind = "persist_error" /\ last'.kind = "committed") =>
          [ experiments |-> experiments', popularity |-> popularity' ]
              \in CommittedOutcomes(source, last.pre, current_time)
      ]_vars

\* a cycle committed new rows right after a cycle whose transaction failed
\* with part of its inserts executed
C8_Witness ==
    /\ op = "cycle"
    /\ last.kind = "committed"
    /\ last.prev = "persist_error"
    /\ last.members # {}
    /\ last.buckets # {}

----------------------------------------------------------------------------
(* Properties of the view refresh *)

\* C14: phase ordering.  A cycle issues the refresh of the view only after
\* its own transaction has committed: a cycle that did not commit (no valid
\* experiment, extraction failed, transaction rolled back) issues none.
C14_RefreshOnlyAfterCommit ==
    (op = "cycle" /\ last.refreshes > 0) => last.kind = "committed"

\* C15: a refresh failure undoes no persisted data.  When a cycle has
\* committed and a refresh of the view raises afterwards, the tables hold
\* what they held before the cycle and every member and bucket the cycle
\* committed.
C15_RefreshFailureKeepsData ==
    [][ (op' = "cycle" /\ last'.kind = "committed" /\ last'.refresh_errors > 0) =>
            /\ experiments' = experiments \cup last'.members
            /\ popularity' = popularity \cup last'.buckets
      ]_vars

\* a cycle committed members and a bucket and both of its refreshes raised
C15_Witness ==
    /\ op = "cycle"
    /\ last.kind = "committed"
    /\ last.refresh_errors = 2
    /\ last.raised
    /\ last.members # {}
    /\ last.buckets # {}
    /\ last.members \subseteq experiments
    /\ last.buckets \subseteq popularity

C17_ViewContent ==
    [][ (op' = "cycle" /\ last'.refresh_errors < last'.refreshes) =>
            /\ view'.populated
            /\ { r.model : r \in view'.rows } = { b.model : b \in popularity' }
            /\ \A r1, r2 \in view'.rows : r1.model = r2.model => r1 = r2
            /\ \A r \in view'.rows :
                  LET bs == { b \in popularity' : b.model = r.model } IN
                  /\ r.count = SumCount(bs)
                  /\ \E b \in bs : b.extracted_time = r.last_updated
                  /\ \A b \in bs : b.extracted_time <= r.last_updated
      ]_vars

\* the view was refreshed over two buckets of one model with counts 2 and 1
\* and holds one row for the model, with count 3
C17_Witness ==
    /\ op = "cycle"
    /\ last.refresh_errors < last.refreshes
    /\ view.populated
    /\ \E r \in view.rows :
          /\ r.count = 3
          /\ { b.count : b \in { q \in popularity : q.model = r.model } } = { 1, 2 }
          /\ Cardinality({ q \in popularity : q.model = r.model }) = 2

\* C18: reader atomicity.  A reader queries the view in a session of its
\* own, so it can observe the view of any state.  Once the view has been
\* populated, every later state shows it populated, with its previous
\* contents or with the complete aggregate of the committed buckets.
C18_ReaderAtomicity ==
    [][ view.populated =>
            /\ view'.populated
            /\ \/ view'.rows = view.rows
               \/ view'.rows = AggregateRows(popularity')
      ]_vars

----------------------------------------------------------------------------
(* Properties of the normalisation *)

\* C19: normalisation is idempotent.  Cleaning a cleaned model name gives
\* the cleaned name again.
C19_Idempotent ==
    clean.pc = "twice" => clean.twice = clean.once

\* the name left by stripping every trailing "/" of x: the prefix of x that
\* does not end with "/" and is followed by nothing but "/"
StripTrailingSlashes(x) ==
    LET k == CHOOSE k \in 0..Len(x) :
                /\ k = 0 \/ x[k] # Slash
                /\ \A j \in (k + 1)..Len(x) : x[j] = Slash
    IN SubSeq(x, 1, k)

\* the remainder p without one leading and one trailing single quote, when it
\* starts and ends with one
DropOuterQuotes(p) ==
    IF p # << >> /\ Head(p) = Quote /\ p[Len(p)] = Quote
    THEN IF Len(p) = 1 THEN << >> ELSE SubSeq(p, 2, Len(p) - 1)
    ELSE p

\* C20: the normalisation algorithm.  For every model name the result is
\* the name with all its trailing "/" stripped and then, when what remains
\* starts and ends with a single quote, without one leading and one trailing
\* single quote; the empty name is returned as it is.
C20_Algorithm ==
    clean.pc # "input" =>
        clean.once = DropOuterQuotes(StripTrailingSlashes(clean.model_name))

\* a quoted name followed by slashes has been cleaned to the bare name
C20_Witness ==
    /\ clean.pc = "once"
    /\ clean.model_name = << Quote, "a", Quote, Slash >>
    /\ clean.once = << "a" >>

----------------------------------------------------------------------------
(* Properties of the scheduler *)

\* C9: failure containment.  When a cycle ends, with an error as without, the
\* task goes to sleep and no other task, flag or registration changes; and
\* the sleep after a failed cycle ends as any other: in the next cycle, or
\* in the end of the task only when the worker's flag has been cleared.
C9_FailureContainment ==
    [][ \A n \in Names :
          /\ (tasks[n].pc = "running" /\ tasks'[n].pc # "running") =>
                /\ tasks'[n].pc = "sleeping"
                /\ \A m \in Names \ {n} : tasks'[m] = tasks[m]
                /\ is_running' = is_running
                /\ workers' = workers
          /\ (tasks[n].pc = "sleeping" /\ tasks[n].outcome = "error"
                 /\ tasks'[n].pc # "sleeping") =>
                tasks'[n].pc = IF is_running[tasks[n].inst] THEN "running" ELSE "done"
      ]_vars

\* a task runs its next cycle after a cycle that raised, beside another
\* live task
C9_Witness ==
    \E n \in Names :
        /\ tasks[n].pc = "running"
        /\ tasks[n].outcome = "error"
        /\ \E m \in Names \ {n} : Live(tasks[m])

\* C10: once stop_workers has requested the stop of a live task, that task
\* starts no new cycle.
C10_StopPreventsNextCycle ==
    [][ \A n \in Names :
          (tasks[n].stop_requested /\ tasks[n].pc # "running")
              => tasks'[n].pc # "running"
      ]_vars

\* C11: stop_workers interrupts no cycle in flight and returns only when
\* every started task has finished.  A step of stop_workers leaves every
\* task where it is, a running cycle ends only by its own completion (the
\* task goes on to its sleep with the cycle's outcome recorded), and in the
\* state where stop_workers returns no task is created, running or sleeping.
C11_StopAllWaits ==
    [][ /\ (sched'.act \in { "stop_workers", "stop_returned" }) =>
              \A n \in Names : tasks'[n].pc = tasks[n].pc
        /\ \A n \in Names :
              (tasks[n].pc = "running" /\ tasks'[n].pc # "running") =>
                  /\ tasks'[n].pc = "sleeping"
                  /\ sched'.act \in { "ok", "error" }
                  /\ sched'.name = n
        /\ (stopper.pc = "waiting" /\ stopper'.pc = "idle") =>
              \A n \in Names : ~Live(tasks'[n])
        /\ (sched'.act = "stop_workers" /\ stopper'.pc = "idle") =>
              \A n \in Names : ~Live(tasks'[n])
      ]_vars

\* stop_workers has returned after waiting for a task that was stopped and
\* had completed at least one cycle
C11_Witness ==
    /\ sched.act = "stop_returned"
    /\ \E n \in Names :
          /\ tasks[n].pc = "done"
          /\ tasks[n].stop_requested
          /\ tasks[n].outcome # "none"

\* C12: shutdown terminates.  Every stop_workers call that waits returns,
\* and every task that was started has then ended.
C12_ShutdownTerminates ==
    (stopper.pc = "waiting") ~> (stopper.pc = "idle" /\ \A n \in Names : ~Live(tasks[n]))

\* C13: the state machine of a task.  With Idle the created task, Stopped
\* the finished one, a task changes phase only from Idle to Running, from
\* Running to Sleeping, from Sleeping to Running and from Sleeping to
\* Stopped; a Running phase is one call of the cycle function, entered by
\* the task's begin or wake-up and left when that call returns or raises;
\* and a task stops only after stop_workers has requested its stop.
C13_StateMachine ==
    [][ \A n \in Names :
          tasks'[n].pc # tasks[n].pc =>
            \/ /\ tasks[n].pc \in { "none", "done" }
               /\ tasks'[n].pc = "created"
               /\ sched'.act = "start_workers"
            \/ /\ tasks[n].pc = "created"
               /\ tasks'[n].pc = "running"
               /\ sched'.act = "begin" /\ sched'.name = n
            \/ /\ tasks[n].pc = "running"
               /\ tasks'[n].pc = "sleeping"
               /\ sched'.act \in { "ok", "error" }
               /\ sched'.name = n
               /\ tasks'[n].outcome = sched'.act
            \/ /\ tasks[n].pc = "sleeping"
               /\ tasks'[n].pc = "running"
               /\ sched'.act = "wake" /\ sched'.name = n
            \/ /\ tasks[n].pc = "sleeping"
               /\ tasks'[n].pc = "done"
               /\ sched'.act = "wake" /\ sched'.name = n
               /\ tasks[n].stop_requested
      ]_vars

\* a task has just stopped at its wake-up, after a cycle that returned
C13_Witness ==
    /\ sched.act = "wake"
    /\ sched.name \in Names
    /\ tasks[sched.name].pc = "done"
    /\ tasks[sched.name].outcome = "ok"

----------------------------------------------------------------------------
(* Properties of the extractor and the grouper *)

\* C21: denylisted categories never reach the analytics store.  No row of
\* experiments and no row of metric_models_popularity has a model that is
\* one of invalid_model_values.
C21_DenylistNeverStored ==
    /\ \A e \in experiments : e.model \notin invalid_model_values
    /\ \A b \in popularity : b.model \notin invalid_model_values

\* C22: the extractor contract.  The list a cycle extracts has one tuple for
\* each source record whose raw model is not an entry of the denylist, and
\* no other; the tuple has the record's id, name and creation time, and its
\* model is the raw model with the trailing "/" stripped and then one pair
\* of surrounding single quotes removed.
C22_ExtractorContract ==
    (op = "cycle" /\ last.kind \in { "committed", "persist_error", "empty" }) =>
        LET kept == { r \in last.src : r.model \notin invalid_model_values } IN
        /\ last.n_extracted = Cardinality(kept)
        /\ last.extracted =
              { [ exp_id   |-> r.exp_id,
                  name     |-> r.name,
                  credated |-> r.credated,
                  model    |-> DropOuterQuotes(StripTrailingSlashes(r.model)) ]
                : r \in kept }

\* a cycle extracted a source holding a denylisted record, a record with a
\* trailing slash and a quoted one: the two that are kept have the same model
C22_Witness ==
    /\ op = "cycle"
    /\ \E r \in last.src : r.model \in invalid_model_values
    /\ \E r \in last.src : r.model = << "A", Slash >>
    /\ \E r \in last.src : r.model = << Quote, "A", Quote >>
    /\ last.n_extracted = Cardinality(last.src) - 1
    /\ \A e \in last.extracted : e.model = << "A" >>

\* C23: source failure containment.  A cycle that cannot read the source
\* ends with an error, issues no refresh, and leaves the tables and the
\* view as they were.
C23_SourceFailureContained ==
    [][ (op' = "cycle" /\ last'.kind = "source_error") =>
            /\ last'.raised
            /\ last'.refreshes = 0
            /\ last'.members = {} /\ last'.buckets = {}
            /\ experiments' = experiments
            /\ popularity' = popularity
            /\ view' = view
      ]_vars

\* a cycle failed to read the source while the store held rows that the
\* view did not show and the source held a record not yet persisted
C23_Witness ==
    /\ op = "cycle"
    /\ last.kind = "source_error"
    /\ last.raised
    /\ popularity # {}
    /\ ~view.populated
    /\ Backlog(source, experiments) # {}

C25_OneGroupPerModel ==
    (op = "cycle" /\ last.kind \in { "committed", "persist_error" }) =>
        /\ last.n_groups = Cardinality({ e.model : e \in last.extracted })
        /\ \A g \in last.groups :
              /\ g.ids = { e.exp_id : e \in { x \in last.extracted : x.model = g.model } }
              /\ g.count = Cardinality(g.ids)

----------------------------------------------------------------------------
(* Properties of concurrent cycles *)

C27_ConflictIsNotAnError ==
    [][\A s \in Sessions :
         LET me == race.sess[s]
             after == race'.sess[s]
         IN /\ (\/ after.ignoredIds \ me.ignoredIds # {}
                \/ after.ignoredKeys \ me.ignoredKeys # {})
                  => /\ ~after.st.err
                     /\ after.pc \in { "loop", "buckets", "flush" }
            /\ (me.pc = "flush" /\ after.outcome = "committed")
                  => /\ \A v \in me.triedExp :
                          IF v.id \in me.ignoredIds
                          THEN \E r \in experiments' : r.id = v.id
                          ELSE v \in experiments'
                     /\ \A v \in me.triedPop :
                          IF <<v.time, v.model>> \in me.ignoredKeys
                          THEN \E r \in popularity' :
                                 r.time = v.time /\ r.model = v.model
                          ELSE v \in popularity'
    ]_vars

\* a cycle whose insert of one experiment was ignored committed another
\* experiment of the same statement
C27_Witness ==
    \E s \in Sessions :
      /\ race.sess[s].outcome = "committed"
      /\ race.sess[s].ignoredIds # {}
      /\ race.sess[s].members # {}

----------------------------------------------------------------------------
(* Properties of the provisioning *)

\* C28: missing backing table.  A refresh made while metric_models_popularity
\* does not exist raises, creates neither the table nor a view and changes
\* nothing under the view's name; so every refresh raises until the table
\* is provisioned.
C28_MissingBackingTable ==
    [][(prov'.act = "refresh" /\ prov'.calls = prov.calls + 1 /\ ~prov.table)
         => /\ prov'.raised
            /\ ~prov'.table
            /\ prov'.obj = prov.obj
            /\ prov'.obj # "matview"
            /\ prov'.failures = prov.failures + 1]_vars

\* two refreshes in a row failed on the missing table
C28_Witness ==
    /\ ~prov.table
    /\ prov.act = "refresh"
    /\ prov.raised
    /\ prov.failures >= 2

----------------------------------------------------------------------------
(* Properties of the cache *)

\* the time to live of a set: its ttl argument, or the default when none is given
EffectiveTtl(set) == IF set.given THEN set.ttl ELSE cache._default_ttl

C30_DeleteResult ==
    [][\A key \in Keys :
         (cache'.act = "delete" /\ cache'.key = key) =>
            /\ cache'.ret = (IF cache._cache[key] # NoEntry THEN "True" ELSE "False")
            /\ cache'._cache[key] = NoEntry
            /\ \A other \in Keys \ {key} : cache'._cache[other] = cache._cache[other]
    ]_vars

\* A source in which experiment names repeat: experiment.name is indexed,
\* not unique (autosubmit_models.py line 94).
NameUniverse ==
    << [exp_id |-> 1, name |-> "n1", model |-> <<"A">>,           credated |-> 0],
       [exp_id |-> 2, name |-> "n1", model |-> <<"A", "/">>,      credated |-> 2],
       [exp_id |-> 3, name |-> "n3", model |-> <<"A">>,           credated |-> 2],
       [exp_id |-> 4, name |-> "n4", model |-> <<"'", "A", "'">>, credated |-> 0] >>

\* the upstream system records a new experiment of NameUniverse
NameAddSource ==
    /\ Cardinality(source) < Len(NameUniverse)
    /\ Cardinality(Backlog(source, experiments)) < MaxBacklog + 1
    /\ source' = source \cup { NameUniverse[Cardinality(source) + 1] }
    /\ op' = "add"
    /\ last' = NoCycle
    /\ UNCHANGED <<experiments, popularity, view, current_time>>
    /\ UNCHANGED <<schedVars, cleanVars, raceVars, provVars, cacheVars>>

\* the cycles of one worker over a source with repeated names
NameNext == NameAddSource \/ ExecuteTaskEmpty \/ ExecuteTask

NameSpec == Init /\ [][NameNext]_vars

----------------------------------------------------------------------------
(* MemoryCache under concurrent callers *)

CacheOps == { "get", "set", "delete", "clear", "clean_expired", "get_stats" }

\* a thread calls an operation; clean_expired reads time.time() before it
\* asks for the lock (line 106)
ThreadCall(t, o, k) ==
    /\ mem.thr[t].pc = "idle"
    /\ mem.calls < MaxCalls
    /\ mem' = [ mem EXCEPT !.thr[t] = [ pc |-> "waiting", op |-> o, key |-> k,
                                        now |-> mem.now ],
                           !.calls = @ + 1 ]
    /\ UNCHANGED <<syncVars, schedVars, cleanVars, raceVars, provVars, cache, req>>

CanAcquire_NoLock(owner, t) == TRUE

\* with self._lock: the RLock is free or held by the same thread
CanAcquire(owner, t) == owner \in { 0, t }

\* the thread enters `with self._lock` and reads what its operation reads:
\* the entry map, the statistics and, except in clean_expired, time.time()
ThreadEnter(t) ==
    /\ mem.thr[t].pc = "waiting"
    /\ CanAcquire(mem._lock, t)
    /\ mem' = [ mem EXCEPT
                  !._lock = t,
                  !.thr[t].pc = "inside",
                  !.thr[t].now = IF mem.thr[t].op = "clean_expired" THEN @
                                 ELSE mem.now,
                  !.seen[t] = [ _cache |-> mem._cache, _stats |-> mem._stats ] ]
    /\ UNCHANGED <<syncVars, schedVars, cleanVars, raceVars, provVars, cache, req>>

\* what the operation of thread t writes, from what it has read
AfterOp(m, t) ==
    LET c == m.thr[t]
        r == m.seen[t]
    IN  IF c.op = "get"
        THEN IF r._cache[c.key] = -1
             THEN [ m EXCEPT !._stats[c.key] = Counted(r._stats[c.key], "misses") ]
             ELSE IF r._cache[c.key] < c.now
             THEN [ m EXCEPT !._stats[c.key] = Counted(r._stats[c.key], "misses"),
                             !._cache[c.key] = -1 ]
             ELSE [ m EXCEPT !._stats[c.key] = Counted(r._stats[c.key], "hits") ]
        ELSE IF c.op = "set"
        THEN [ m EXCEPT !._cache[c.key] = c.now + 1 ]
        ELSE IF c.op = "delete"
        THEN IF r._cache[c.key] # -1 THEN [ m EXCEPT !._cache[c.key] = -1 ] ELSE m
        ELSE IF c.op = "clear"
        THEN [ m EXCEPT !._cache = [ k \in Keys |-> -1 ] ]
        ELSE IF c.op = "clean_expired"
        THEN [ m EXCEPT !._cache =
                 [ k \in Keys |-> IF r._cache[k] # -1 /\ r._cache[k] < c.now
                                  THEN -1 ELSE @[k] ] ]
        ELSE m

\* the thread writes and leaves the with block, which releases the lock
ThreadExit(t) ==
    /\ mem.thr[t].pc = "inside"
    /\ mem' = [ AfterOp(mem, t) EXCEPT
                  !._lock = IF @ = t THEN 0 ELSE @,
                  !.thr[t] = Idle,
                  !.seen[t] = << >>,
                  !.gets = IF mem.thr[t].op = "get"
                           THEN [ @ EXCEPT ![mem.thr[t].key] = @ + 1 ] ELSE @ ]
    /\ UNCHANGED <<syncVars, schedVars, cleanVars, raceVars, provVars, cache, req>>

\* time.time() advances
ThreadTick ==
    /\ mem.now < MaxClock
    /\ mem' = [ mem EXCEPT !.now = @ + 1 ]
    /\ UNCHANGED <<syncVars, schedVars, cleanVars, raceVars, provVars, cache, req>>

LockNext ==
    \/ \E t \in Threads, o \in CacheOps, k \in Keys : ThreadCall(t, o, k)
    \/ \E t \in Threads : ThreadEnter(t)
    \/ \E t \in Threads : ThreadExit(t)
    \/ ThreadTick

LockSpec == Init /\ [][LockNext]_vars

----------------------------------------------------------------------------
(* The read path: GET /aggregated *)

\* cache_key = "models:aggregated", the first of the keys of the cache
cache_key == "k1"

\* the rows a view can hold, one per model, with distinct counts
ViewRowChoices ==
    { [ model |-> "A", count |-> 3, total_count |-> 3, last_updated |-> 1 ],
      [ model |-> "B", count |-> 2, total_count |-> 2, last_updated |-> 1 ],
      [ model |-> "C", count |-> 1, total_count |-> 1, last_updated |-> 1 ] }

\* _get_all_models: SELECT model, SUM(count) AS total_count ... GROUP BY model
\* ORDER BY total_count DESC, over a view with one row per model
RECURSIVE _get_all_models(_)
_get_all_models(rows) ==
    IF rows = {} THEN << >>
    ELSE LET r == CHOOSE x \in rows : \A y \in rows : y.count <= x.count
         IN << [ name |-> r.model, count |-> r.count ] >>
              \o _get_all_models(rows \ {r})

\* result[:limit] for limit >= 0
Slice(result, limit) == SubSeq(result, 1, MinOf(limit, Len(result)))

\* lines 64-71 of the handler: the query, the slice and
\* AggregatedPopularModelsResponse.initialize, which raises IndexError on an
\* empty list (models[0])
BuildResponse(v, limit) ==
    LET result == _get_all_models(v.rows)
        sliced == IF limit # NoLimit THEN Slice(result, limit) ELSE result
    IN  [ raised |-> sliced = << >>, response |-> sliced ]

\* get_aggregated_popular_models(request, limit): lines 38-55 on a cache
\* hit, lines 57-85 on a miss.  The response is cached under cache_key with
\* the default ttl.
Request(limit) ==
    /\ Requests(cache._stats[cache_key]) < MaxCalls
    /\ LET entry == cache._cache[cache_key]
           hit == entry.expiry # -1 /\ ~(entry.expiry < cache.now)
           built == BuildResponse(view, limit)
       IN  /\ req' = IF hit
                     THEN [ limit |-> limit, hit |-> TRUE, raised |-> FALSE,
                            response |-> IF limit # NoLimit
                                         THEN Slice(entry.value, limit)
                                         ELSE entry.value ]
                     ELSE [ limit |-> limit, hit |-> FALSE,
                            raised |-> built.raised, response |-> built.response ]
           /\ cache' = IF hit
                       THEN [ cache EXCEPT
                                !._stats[cache_key] = Counted(@, "hits"),
                                !.act = "request" ]
                       ELSE IF built.raised
                       THEN [ cache EXCEPT
                                !._stats[cache_key] = Counted(@, "misses"),
                                !._cache[cache_key] = NoEntry,
                                !.act = "request" ]
                       ELSE [ cache EXCEPT
                                !._stats[cache_key] = Counted(@, "misses"),
                                !._cache[cache_key] =
                                   [ value |-> built.response,
                                     expiry |-> Expiry(cache.now, FALSE, 0,
                                                       cache._default_ttl) ],
                                !.act = "request" ]
    /\ UNCHANGED <<syncVars, schedVars, cleanVars, raceVars, provVars, mem>>

\* the view was refreshed before the first request and stays as it is
ReadInit ==
    /\ source = {}
    /\ experiments = {}
    /\ popularity = {}
    /\ \E rows \in SUBSET ViewRowChoices : view = [ populated |-> TRUE, rows |-> rows ]
    /\ current_time = 1
    /\ op = "init"
    /\ last = NoCycle
    /\ SchedInitial
    /\ clean = NoClean
    /\ OtherInitial

\* requests without a limit or with a positive one, GET /clean_cache, and
\* the clock
ReadNext ==
    \/ \E limit \in { NoLimit } \cup 1..MaxLimit : Request(limit)
    \/ CacheClear
    \/ CacheTick

ReadSpec == ReadInit /\ [][ReadNext]_vars

----------------------------------------------------------------------------
(* Properties of the reconciler *)

\* the log entry of the group a bucket row was written for
EntryOf(b) == CHOOSE e \in last.log : e.key = <<b.time, b.model>>

\* the buckets of b's model the cycle wrote before b, in processing order
\* (the in-memory count of a model grows with every group that has new members)
WrittenBefore(b) ==
    { p \in last.buckets : /\ p.model = b.model
                           /\ EntryOf(p).before < EntryOf(b).before }

\* the count the cycle loaded from the store for model m: the in-memory count
\* before the first group of m with new members
LoadedFromStore(m) ==
    LET firsts == { e \in last.log : /\ e.key[2] = m /\ ~e.skipped
                                     /\ \A x \in last.log :
                                          (x.key[2] = m /\ ~x.skipped)
                                             => e.before <= x.before }
    IN (CHOOSE e \in firsts : TRUE).before

\* C32: within-cycle chaining.  When a committed cycle wrote several buckets
\* of one model, then in processing order the total_count of each is the
\* total_count of the bucket written before it plus its own count, and the
\* total_count of the first is the count loaded from the store plus its own
\* count.
C32_WithinCycleChaining ==
    (op = "cycle" /\ last.kind = "committed") =>
        \A b \in last.buckets :
            (\E o \in last.buckets : o # b /\ o.model = b.model) =>
                IF WrittenBefore(b) = {}
                THEN b.total_count = LoadedFromStore(b.model) + b.count
                ELSE \E p \in WrittenBefore(b) :
                        /\ \A q \in WrittenBefore(b) :
                               EntryOf(q).before <= EntryOf(p).before
                        /\ b.total_count = p.total_count + b.count

\* C33: bucket timestamp.  Every bucket a cycle writes carries the time of
\* that cycle as extracted_time, so it is later than the extracted_time of
\* every bucket an earlier cycle wrote.
C33_BucketTimestamp ==
    [][ op' = "cycle" =>
          \A b \in popularity' \ popularity :
              /\ b.extracted_time = current_time
              /\ \A p \in popularity : p.extracted_time < b.extracted_time
      ]_vars

\* C34: a persist failure is a failure of the cycle.  A cycle whose
\* transaction failed ends with an error and goes on to no later phase: it
\* issues no refresh.
C34_PersistFailurePropagates ==
    (op = "cycle" /\ last.kind = "persist_error") =>
        (last.raised /\ last.refreshes = 0)

C40_EmptyExtractionNoOp ==
    [][ (op' = "cycle" /\ last'.kind = "empty") =>
          /\ ~last'.raised
          /\ last'.refreshes = 0
          /\ last'.members = {} /\ last'.buckets = {}
          /\ experiments' = experiments
          /\ popularity' = popularity
          /\ view' = view
      ]_vars

\* a cycle over a source that holds only a denylisted experiment ended
\* without extracting anything
C40_Witness ==
    /\ op = "cycle"
    /\ last.kind = "empty"
    /\ last.src # {}
    /\ ~last.raised

----------------------------------------------------------------------------
(* Properties of the worker manager *)

\* C39: at most one loop per name.  No name ever has two tasks whose
\* worker.start() has not returned; and start_workers creates a task for a
\* name only when the name has no task or its task is done.
C39_OneLoopPerName ==
    /\ [](\A n \in Names : sched.loops[n] <= 1)
    /\ [][ sched'.act = "start_workers" =>
             \A n \in Names : tasks'[n] # tasks[n] => ~Live(tasks[n]) ]_vars

\* start_workers was called while the task of a name was in its loop, and
\* left that task alone
C39_Witness ==
    /\ sched.act = "start_workers"
    /\ \E n \in Names : tasks[n].pc \in { "running", "sleeping" }
                            /\ sched.loops[n] = 1

----------------------------------------------------------------------------
(* Properties of the provisioning of the view, continued *)

\* C36: wrong-kind object at the view's name.  When the view is provisioned
\* (by initialize_database or by a refresh that finds no view) while a plain
\* table stands under its name and no statement fails for another reason,
\* the table is dropped, the materialized view stands in its place and the
\* call completes without raising.
C36_WrongKindReplaced ==
    [][ ( /\ prov.obj = "table"
          /\ prov'.act \in { "initialize", "refresh" }
          /\ prov'.fault = "none" )
        => ( prov'.obj = "matview" /\ ~prov'.raised ) ]_vars

----------------------------------------------------------------------------
(* Properties of the unique experiment name *)

\* the write set of a cycle over src holds a new experiment whose name is
\* that of a persisted experiment with another id or of another new one
NameCollision(src, exps) ==
    \E r \in Backlog(src, exps) :
       \/ \E e \in exps : e.name = r.name /\ e.id # r.exp_id
       \/ \E q \in Backlog(src, exps) : q.exp_id # r.exp_id /\ q.name = r.name

\* C37: name collision poisons the cycle.  From a state with a name
\* collision in the write set, every cycle ends in a failed transaction and
\* leaves both tables as they were, and the collision is still there
\* afterwards: no experiment and no bucket of that delta is ever persisted.
C37_NameCollisionPoisons ==
    [][ NameCollision(source, experiments) =>
          /\ NameCollision(source', experiments')
          /\ experiments' = experiments
          /\ popularity' = popularity
          /\ (op' = "cycle" => last'.kind = "persist_error") ]_vars

\* a second cycle in a row has failed on a delta that holds, besides the
\* colliding experiment, one whose name is free
C37_Witness ==
    /\ op = "cycle"
    /\ last.kind = "persist_error"
    /\ last.prev = "persist_error"
    /\ NameCollision(source, experiments)
    /\ \E e \in experiments : e.name = "n1"
    /\ \E r \in Backlog(source, experiments) :
          \A q \in source : q.name = r.name => q = r

----------------------------------------------------------------------------
(* Properties of the cache lock *)

\* the threads inside a with self._lock block
Inside == { t \in Threads : mem.thr[t].pc = "inside" }

\* C31: cache mutual exclusion.  At most one thread is inside an operation's
\* locked block and it holds the lock; when an operation writes, the entry
\* map and the statistics are still what it read, so each operation takes
\* effect as a whole at that moment and the calls behave as the sequence of
\* those moments; and no hit/miss increment is lost: for every key, hits
\* plus misses is the number of get calls on it that returned.
C31_CacheMutualExclusion ==
    /\ [](Cardinality(Inside) <= 1)
    /\ [](\A t \in Inside : mem._lock = t)
    /\ [](\A k \in Keys : Requests(mem._stats[k]) = mem.gets[k])
    /\ [][ \A t \in Threads :
             (mem.thr[t].pc = "inside" /\ mem'.thr[t].pc = "idle") =>
               mem.seen[t] = [ _cache |-> mem._cache, _stats |-> mem._stats ]
         ]_vars

\* two get calls on one key have returned, the second of which waited for
\* the lock while the first was inside
C31_Witness ==
    \E k \in Keys :
       /\ mem.gets[k] = 2
       /\ \E t \in Threads : mem.thr[t].pc = "waiting" /\ mem._lock \notin { 0, t }

----------------------------------------------------------------------------
(* Properties of the read path *)

\* C38: read-path cache consistency.  The response to every request, and
\* whether it failed, is what the handler builds without a cache for the
\* same limit over the same view; a request without a limit returns all
\* models of the view.
C38_ReadPathConsistency ==
    cache.act = "request" =>
      /\ req.raised = BuildResponse(view, req.limit).raised
      /\ req.response = BuildResponse(view, req.limit).response

====
